---------------------------- MODULE Spec2Model ----------------------------
(***************************************************************************)
(* A model of YTTranskripto (src/yttranskripto.py): the time extractor     *)
(* safe_time, the two timestamp formatters, and the MainWindow handlers    *)
(* fetch_transcript, update_transcript_display and export_transcript.      *)
(*                                                                         *)
(* Python values are records of one shape [tag, v, s, items]:              *)
(*   tag "num"    a finite int or float; v is its value in units of        *)
(*                1/10000 second (exact decimal arithmetic stands for      *)
(*                binary floating point)                                   *)
(*   tag "inf", "nan"   the two non-finite floats                          *)
(*   tag "bigint" an int too large for a float (such as 10**400)           *)
(*   tag "str"    a string; s is a sequence of pieces whose concatenation  *)
(*                is the string (the formatters produce one piece per      *)
(*                character, a caption text is one piece)                  *)
(*   tag "none", "list"   None and a list                                  *)
(*   tag "dict"   a mapping; items is its sequence of <<key, value>> in    *)
(*                iteration (insertion) order                              *)
(* The result of a call is [exc, val]: exc = "" and the returned value,    *)
(* or the name of the exception that left the function.                    *)
(***************************************************************************)
EXTENDS Integers, Sequences, FiniteSets, TLC

VARIABLES
    transcript_data,          \* MainWindow.transcript_data: None or the fetched list
    timestamp_checkbox,       \* isChecked() of the "Include Timestamps" box
    timestamp_format_combo,   \* currentText() of the timestamp format combo
    transcript_display,       \* the text of the read-only QTextEdit
    disk,                     \* the file behind each destination path
    message,                  \* title of the QMessageBox export_transcript showed in the
                              \* last step ("" if it showed none, or another handler ran)
    fn_name,      \* the utility function applied ("none" before the call)
    fn_value,     \* its argument
    fn_fmt,       \* the fmt argument of format_timestamp
    fn_result     \* the outcome of the call

guivars == <<transcript_data, timestamp_checkbox, timestamp_format_combo,
             transcript_display, disk, message>>
fnvars == <<fn_name, fn_value, fn_fmt, fn_result>>
vars == <<guivars, fnvars>>

-----------------------------------------------------------------------------
(* Bounds of the model *)

MaxDepth == 2     \* nesting depth of the mappings given to safe_time
MaxSegments == 2  \* segments in a fetched transcript

-----------------------------------------------------------------------------
(* Python values *)

Unit == 10 * 1000     \* model units per second

Num(n) == [tag |-> "num", v |-> n, s |-> <<>>, items |-> <<>>]
Inf == [tag |-> "inf", v |-> 0, s |-> <<>>, items |-> <<>>]
NaN == [tag |-> "nan", v |-> 0, s |-> <<>>, items |-> <<>>]
BigInt == [tag |-> "bigint", v |-> 0, s |-> <<>>, items |-> <<>>]
Str(chars) == [tag |-> "str", v |-> 0, s |-> chars, items |-> <<>>]
None == [tag |-> "none", v |-> 0, s |-> <<>>, items |-> <<>>]
RECURSIVE Unkeyed(_)
Unkeyed(xs) == IF xs = <<>> THEN <<>> ELSE <<<<"", Head(xs)>>>> \o Unkeyed(Tail(xs))
List(xs) == [tag |-> "list", v |-> 0, s |-> <<>>, items |-> Unkeyed(xs)]
EmptyList == List(<<>>)
Dict(kvs) == [tag |-> "dict", v |-> 0, s |-> <<>>, items |-> kvs]

RECURSIVE Join(_)
Join(pieces) == IF pieces = <<>> THEN "" ELSE Head(pieces) \o Join(Tail(pieces))

\* the string a str value denotes, and the str value of a string
StringOf(x) == Join(x.s)
Text1(string) == Str(<<string>>)

Ret(x) == [exc |-> "", val |-> x]
Raise(e) == [exc |-> e, val |-> None]

HasKey(d, k) == \E i \in 1..Len(d.items) : d.items[i][1] = k
Lookup(d, k) == d.items[CHOOSE i \in 1..Len(d.items) : d.items[i][1] = k][2]

-----------------------------------------------------------------------------
(* Decimal digits, as str() and the format specs write them and float()    *)
(* reads them                                                              *)

DigitChars == <<"0", "1", "2", "3", "4", "5", "6", "7", "8", "9">>
IsDigit(c) == \E d \in 1..10 : DigitChars[d] = c
DigitVal(c) == (CHOOSE d \in 1..10 : DigitChars[d] = c) - 1
AllDigits(cs) == \A i \in 1..Len(cs) : IsDigit(cs[i])

RECURSIVE DigitsOf(_)
DigitsOf(n) == IF n < 10 THEN <<DigitChars[n + 1]>>
               ELSE DigitsOf(n \div 10) \o <<DigitChars[(n % 10) + 1]>>

RECURSIVE ZeroPad(_, _)
ZeroPad(cs, width) == IF Len(cs) >= width THEN cs ELSE ZeroPad(<<"0">> \o cs, width)

\* the format spec {n:0w} of an f-string, n >= 0: at least w digits
FormatInt(n, width) == ZeroPad(DigitsOf(n), width)

RECURSIVE DecimalValue(_)
DecimalValue(cs) == IF cs = <<>> THEN 0
                    ELSE 10 * DecimalValue(SubSeq(cs, 1, Len(cs) - 1)) + DigitVal(cs[Len(cs)])

RECURSIVE Pow10(_)
Pow10(k) == IF k = 0 THEN 1 ELSE 10 * Pow10(k - 1)

\* the index of the first c in cs, 0 if there is none
FirstIndex(cs, c) == IF \E i \in 1..Len(cs) : cs[i] = c
                     THEN CHOOSE i \in 1..Len(cs) : cs[i] = c /\ \A j \in 1..(i - 1) : cs[j] # c
                     ELSE 0

\* float(str) of the decimal literal ip[.fp][e expo]: a ValueError unless it
\* is well formed; a literal beyond the float range converts to inf
ParseDecimal(ip, fp, expo, has_exp) ==
    IF ~(/\ AllDigits(ip) /\ AllDigits(fp) /\ AllDigits(expo)
         /\ Len(ip) + Len(fp) > 0
         /\ Len(fp) <= 4
         /\ has_exp => expo # <<>>)
    THEN Raise("ValueError")
    ELSE IF DecimalValue(ip) = 0 /\ DecimalValue(fp) = 0 THEN Ret(Num(0))
    ELSE IF DecimalValue(expo) > 308 THEN Ret(Inf)
    ELSE Ret(Num((DecimalValue(ip) * Unit + DecimalValue(fp) * Pow10(4 - Len(fp)))
                 * Pow10(DecimalValue(expo))))

ParseMantissa(mant, dot, expo, has_exp) ==
    ParseDecimal(IF dot = 0 THEN mant ELSE SubSeq(mant, 1, dot - 1),
                 IF dot = 0 THEN <<>> ELSE SubSeq(mant, dot + 1, Len(mant)),
                 expo, has_exp)

ParseExponent(cs, e_pos) ==
    IF e_pos = 0 THEN ParseMantissa(cs, FirstIndex(cs, "."), <<>>, FALSE)
    ELSE ParseMantissa(SubSeq(cs, 1, e_pos - 1), FirstIndex(SubSeq(cs, 1, e_pos - 1), "."),
                       SubSeq(cs, e_pos + 1, Len(cs)), TRUE)

\* float(str): the literals "inf" and "nan", or a decimal literal
ParseFloat(cs) ==
    IF cs = <<"i", "n", "f">> THEN Ret(Inf)
    ELSE IF cs = <<"n", "a", "n">> THEN Ret(NaN)
    ELSE ParseExponent(cs, FirstIndex(cs, "e"))

\* float(x)
PyFloat(x) ==
    CASE x.tag \in {"num", "inf", "nan"} -> Ret(x)
      [] x.tag = "bigint" -> Raise("OverflowError")
      [] x.tag = "str" -> ParseFloat(x.s)
      [] OTHER -> Raise("TypeError")

\* isinstance(x, (int, float))
IsIntOrFloat(x) == x.tag \in {"num", "inf", "nan", "bigint"}

-----------------------------------------------------------------------------
(* safe_time, lines 34-54 *)

RECURSIVE safe_time(_)
RECURSIVE SafeTimeValues(_, _)

\* lines 47-49 for the i-th value, num being safe_time of it
SafeTimeValue(value, i, num) ==
    IF num.exc # "" THEN num
    ELSE IF IsIntOrFloat(num.val) THEN num
    ELSE SafeTimeValues(value, i + 1)

\* the loop of lines 46-50 from the i-th value on
SafeTimeValues(value, i) ==
    IF i > Len(value.items) THEN Ret(Num(0))
    ELSE SafeTimeValue(value, i, safe_time(value.items[i][2]))

\* lines 42-50, conv being float(value["value"])
SafeTimeKey(value, conv) ==
    IF conv.exc \in {"ValueError", "TypeError"} THEN SafeTimeValues(value, 1) ELSE conv

\* lines 51-54, conv being float(value)
SafeTimeScalar(conv) ==
    IF conv.exc \in {"TypeError", "ValueError"} THEN Ret(Num(0)) ELSE conv

safe_time(value) ==
    IF value.tag = "dict"
    THEN IF HasKey(value, "value")
         THEN SafeTimeKey(value, PyFloat(Lookup(value, "value")))
         ELSE SafeTimeValues(value, 1)
    ELSE SafeTimeScalar(PyFloat(value))

-----------------------------------------------------------------------------
(* format_timestamp, lines 56-66, and format_srt_timestamp, lines 68-75 *)

\* int(x) of a float, in whole seconds
PyInt(x) ==
    CASE x.tag = "num" -> Ret(Num((x.v \div Unit) * Unit))
      [] x.tag = "inf" -> Raise("OverflowError")
      [] x.tag = "nan" -> Raise("ValueError")
      [] OTHER -> Raise("TypeError")

\* datetime.utcfromtimestamp(seconds): the calendar day and the time of day
utcfromtimestamp(seconds) ==
    [day |-> seconds \div 86400,
     hour |-> (seconds % 86400) \div 3600,
     minute |-> ((seconds % 86400) \div 60) % 60,
     second |-> (seconds % 86400) % 60]

\* datetime.strftime("%H:%M:%S")
strftime(dt) ==
    FormatInt(dt.hour, 2) \o <<":">> \o FormatInt(dt.minute, 2) \o <<":">> \o FormatInt(dt.second, 2)

\* a changed format_timestamp: the hours of the clock style are not wrapped at 24
FormatSecondsNoWrap(seconds, fmt) ==
    IF fmt = "mm:ss"
    THEN Str(FormatInt(seconds \div 60, 2) \o <<":">> \o FormatInt(seconds % 60, 2))
    ELSE Str(FormatInt(seconds \div 3600, 2) \o <<":">> \o FormatInt((seconds \div 60) % 60, 2)
             \o <<":">> \o FormatInt(seconds % 60, 2))

\* lines 59-66, seconds being the int of line 58
FormatSeconds(seconds, fmt) ==
    IF fmt = "HH:MM:SS" THEN Str(strftime(utcfromtimestamp(seconds)))
    ELSE IF fmt = "mm:ss"
         THEN Str(FormatInt(seconds \div 60, 2) \o <<":">> \o FormatInt(seconds % 60, 2))
    ELSE Str(strftime(utcfromtimestamp(seconds)))

\* line 58 on, t being safe_time(seconds)
FormatExtracted(t, fmt) ==
    IF t.exc # "" THEN t
    ELSE IF PyInt(t.val).exc # "" THEN PyInt(t.val)
    ELSE Ret(FormatSeconds(PyInt(t.val).val.v \div Unit, fmt))

format_timestamp(seconds, fmt) == FormatExtracted(safe_time(seconds), fmt)

\* round(x) of the float x = n / d, n >= 0: to the nearest integer, a tie to the even one
Round(n, d) ==
    IF 2 * (n % d) < d THEN n \div d
    ELSE IF 2 * (n % d) > d THEN (n \div d) + 1
    ELSE IF (n \div d) % 2 = 0 THEN n \div d ELSE (n \div d) + 1

\* lines 71-75, x being the finite float of line 70 in model units
FormatSrt(x) ==
    Str(FormatInt(x \div (3600 * Unit), 2) \o <<":">>
        \o FormatInt((x % (3600 * Unit)) \div (60 * Unit), 2) \o <<":">>
        \o FormatInt((x % (60 * Unit)) \div Unit, 2) \o <<",">>
        \o FormatInt(Round((x - (x \div Unit) * Unit) * 1000, Unit), 3))

\* line 70 on, t being safe_time(seconds); int() of inf or nan raises
FormatSrtExtracted(t) ==
    IF t.exc # "" THEN t
    ELSE IF t.val.tag # "num" THEN Raise("ValueError")
    ELSE Ret(FormatSrt(t.val.v))

format_srt_timestamp(seconds) == FormatSrtExtracted(safe_time(seconds))

-----------------------------------------------------------------------------
(* MainWindow: rendering *)

\* "not x" of transcript_data: None and the empty list are falsy
Falsy(x) == x.tag = "none" \/ (x.tag = "list" /\ x.items = <<>>)

Text(entry) == Lookup(entry, "text")

\* f"[{ts}] {entry['text']}", ts being the outcome of format_timestamp
Stamped(ts, entry, ending) ==
    IF ts.exc # "" THEN ts
    ELSE Ret(Text1("[" \o StringOf(ts.val) \o "] " \o StringOf(Text(entry)) \o ending))

\* one line of the text rendering, lines 196-200 and 234-238
TextLine(entry, include_ts, ts_format) ==
    IF include_ts
    THEN Stamped(format_timestamp(Lookup(entry, "start"), ts_format), entry, "\n")
    ELSE Ret(Text1(StringOf(Text(entry)) \o "\n"))

\* display_text += line, unless the line or a later one raises
AddLine(line, rest) ==
    IF line.exc # "" THEN line
    ELSE IF rest.exc # "" THEN rest
    ELSE Ret(Text1(StringOf(line.val) \o StringOf(rest.val)))

\* the loop of lines 194-200: display_text, or the exception that ends it
RECURSIVE DisplayText(_, _, _, _)
DisplayText(data, i, include_ts, ts_format) ==
    IF i > Len(data.items) THEN Ret(Text1(""))
    ELSE AddLine(TextLine(data.items[i][2], include_ts, ts_format),
                 DisplayText(data, i + 1, include_ts, ts_format))

\* line 201, r being the outcome of the loop: setText, unless the loop raised
SetText(r, shown) == IF r.exc # "" THEN shown ELSE StringOf(r.val)

\* update_transcript_display, lines 188-201: the text the display holds after it
update_transcript_display(data, include_ts, ts_format, shown) ==
    IF Falsy(data) THEN shown
    ELSE SetText(DisplayText(data, 1, include_ts, ts_format), shown)

-----------------------------------------------------------------------------
(* MainWindow: the writes of export_transcript, lines 230-273.  Each is    *)
(* the outcome of one call that writes: the chunk written, or the          *)
(* exception raised while preparing it.                                    *)

\* line 248, ts being the outcome of format_timestamp or the empty string
CsvCells(ts, entry) ==
    IF ts.exc # "" THEN ts
    ELSE Ret(List(<<Text1(StringOf(ts.val)), Text(entry), Lookup(entry, "duration")>>))

CsvRow(entry, include_ts, ts_format) ==
    IF include_ts
    THEN CsvCells(format_timestamp(Lookup(entry, "start"), ts_format), entry)
    ELSE CsvCells(Ret(Text1("")), entry)

Paragraph(line) ==
    IF line.exc # "" THEN line ELSE Ret(Dict(<<<<"paragraph", line.val>>>>))

\* lines 256-261
DocxParagraph(entry, include_ts, ts_format) ==
    IF include_ts
    THEN Paragraph(Stamped(format_timestamp(Lookup(entry, "start"), ts_format), entry, ""))
    ELSE Paragraph(Ret(Text(entry)))

\* start_val + duration_val of two floats
FloatSum(a, b) ==
    IF a.tag = "num" /\ b.tag = "num" THEN Num(a.v + b.v)
    ELSE IF a.tag = "nan" \/ b.tag = "nan" THEN NaN
    ELSE Inf

\* lines 271-273
SrtLines(entry, i, start_srt, end_srt) ==
    IF start_srt.exc # "" THEN <<start_srt>>
    ELSE IF end_srt.exc # "" THEN <<end_srt>>
    ELSE <<Ret(Text1(Join(DigitsOf(i)) \o "\n")),
           Ret(Text1(StringOf(start_srt.val) \o " --> " \o StringOf(end_srt.val) \o "\n")),
           Ret(Text1(StringOf(Text(entry)) \o "\n\n"))>>

\* a changed subtitle export: the end of a block is its duration, not start + duration
SrtTimesEndIsDuration(entry, i, start_val, duration_val) ==
    IF start_val.exc # "" THEN <<start_val>>
    ELSE IF duration_val.exc # "" THEN <<duration_val>>
    ELSE SrtLines(entry, i, format_srt_timestamp(start_val.val),
                  format_srt_timestamp(duration_val.val))

\* lines 268-270
SrtTimes(entry, i, start_val, duration_val) ==
    IF start_val.exc # "" THEN <<start_val>>
    ELSE IF duration_val.exc # "" THEN <<duration_val>>
    ELSE SrtLines(entry, i, format_srt_timestamp(start_val.val),
                  format_srt_timestamp(FloatSum(start_val.val, duration_val.val)))

\* lines 266-273: the writes of the i-th subtitle block
SrtBlock(entry, i) ==
    SrtTimes(entry, i, safe_time(Lookup(entry, "start")), safe_time(Lookup(entry, "duration")))

\* a changed text export: the segments are written last to first
RECURSIVE TxtWritesReversed(_, _, _, _)
TxtWritesReversed(data, i, include_ts, ts_format) ==
    IF i > Len(data.items) THEN <<>>
    ELSE TxtWritesReversed(data, i + 1, include_ts, ts_format)
         \o <<TextLine(data.items[i][2], include_ts, ts_format)>>

\* the loop of lines 233-238
RECURSIVE TxtWrites(_, _, _, _)
TxtWrites(data, i, include_ts, ts_format) ==
    IF i > Len(data.items) THEN <<>>
    ELSE <<TextLine(data.items[i][2], include_ts, ts_format)>>
         \o TxtWrites(data, i + 1, include_ts, ts_format)

RECURSIVE CsvWrites(_, _, _, _)
CsvWrites(data, i, include_ts, ts_format) ==
    IF i > Len(data.items) THEN <<>>
    ELSE <<CsvRow(data.items[i][2], include_ts, ts_format)>>
         \o CsvWrites(data, i + 1, include_ts, ts_format)

\* json.dump(list, f, indent=4) writes the array piece by piece
RECURSIVE JsonWrites(_, _)
JsonWrites(data, i) ==
    IF i > Len(data.items) THEN <<>>
    ELSE <<Ret(data.items[i][2])>> \o JsonWrites(data, i + 1)

RECURSIVE DocxWrites(_, _, _, _)
DocxWrites(data, i, include_ts, ts_format) ==
    IF i > Len(data.items) THEN <<>>
    ELSE <<DocxParagraph(data.items[i][2], include_ts, ts_format)>>
         \o DocxWrites(data, i + 1, include_ts, ts_format)

RECURSIVE SrtWrites(_, _)
SrtWrites(data, i) ==
    IF i > Len(data.items) THEN <<>>
    ELSE SrtBlock(data.items[i][2], i) \o SrtWrites(data, i + 1)

CsvHeader == List(<<Text1("Start Time"), Text1("Text"), Text1("Duration")>>)
DocxHeading == Dict(<<<<"heading", Text1("Transcript")>>>>)

\* str.lower() of the combo's text
Lower(name) ==
    CASE name = "TXT" -> "txt" [] name = "CSV" -> "csv" [] name = "JSON" -> "json"
      [] name = "DOCX" -> "docx" [] name = "SRT" -> "srt" [] OTHER -> name

\* the document is built in memory, lines 253-261; save() opens the
\* destination last, line 262
DocxExport(parts) ==
    [opens |-> \A i \in 1..Len(parts) : parts[i].exc = "", writes |-> parts]

\* the if/elif chain of lines 231-273: whether a destination is opened, and
\* the writes in order
ExportWrites(export_format, data, include_ts, ts_format) ==
    CASE export_format = "txt" ->
           [opens |-> TRUE, writes |-> TxtWrites(data, 1, include_ts, ts_format)]
      [] export_format = "csv" ->
           [opens |-> TRUE,
            writes |-> <<Ret(CsvHeader)>> \o CsvWrites(data, 1, include_ts, ts_format)]
      [] export_format = "json" ->
           [opens |-> TRUE,
            writes |-> <<Ret(Text1("["))>> \o JsonWrites(data, 1) \o <<Ret(Text1("]"))>>]
      [] export_format = "docx" ->
           DocxExport(<<Ret(DocxHeading)>> \o DocxWrites(data, 1, include_ts, ts_format))
      [] export_format = "srt" ->
           [opens |-> TRUE, writes |-> SrtWrites(data, 1)]
      [] OTHER -> [opens |-> FALSE, writes |-> <<>>]

\* the chunks of the writes before the first one that raises, or before the
\* io_fails-th, where the destination fails (io_fails > Len(writes): it never does)
RECURSIVE Written(_, _, _)
Written(writes, i, io_fails) ==
    IF i > Len(writes) \/ i = io_fails \/ writes[i].exc # "" THEN <<>>
    ELSE <<writes[i].val>> \o Written(writes, i + 1, io_fails)

\* the exception that ends the try block of lines 230-274 after done writes
\* ("" for none)
ExceptionAfter(writes, done) ==
    IF done = Len(writes) THEN ""
    ELSE IF writes[done + 1].exc # "" THEN writes[done + 1].exc
    ELSE "OSError"

ExportException(writes, io_fails) ==
    ExceptionAfter(writes, Len(Written(writes, 1, io_fails)))

-----------------------------------------------------------------------------
(* MainWindow: state and handlers.  The URL field and the export format    *)
(* combo have no slot connected; a handler reads their current text, which *)
(* is an input of the step (the combo holds one of its five items, lines   *)
(* 143-146).  save_preferences (lines 278-284) writes only the QSettings   *)
(* store, which no handler reads after __init__; the store is not part of  *)
(* the state.                                                              *)

\* the segments the transcript service returns: text, start and duration
\* always present, the times in shapes safe_time accepts
Segment(text, start, duration) ==
    Dict(<<<<"text", Text1(text)>>, <<"start", start>>, <<"duration", duration>>>>)

Segments ==
    {Segment("Hello", Num(5 * Unit), Num(25000)),
     Segment("World", Dict(<<<<"value", Str(<<"3", "6", "6", "1", ".", "2", "5">>)>>>>), Str(<<"1">>))}

RECURSIVE SeqsUpTo(_, _)
SeqsUpTo(S, n) ==
    IF n = 0 THEN {<<>>}
    ELSE LET shorter == SeqsUpTo(S, n - 1)
         IN  shorter \cup {Append(q, x) : q \in {r \in shorter : Len(r) = n - 1}, x \in S}

Transcripts == {List(q) : q \in SeqsUpTo(Segments, MaxSegments)}

\* what the user typed: whether it is blank after strip(), which host name it
\* contains, whether it contains "v=", and the text extract_video_id cuts out
Url(blank, host, has_v, id) == [blank |-> blank, host |-> host, has_v |-> has_v, id |-> id]
Urls == {Url(TRUE, "", FALSE, ""),
         Url(FALSE, "example.com", FALSE, ""),
         Url(FALSE, "youtube.com", FALSE, ""),
         Url(FALSE, "youtube.com", TRUE, ""),
         Url(FALSE, "youtube.com", TRUE, "dQw4"),
         Url(FALSE, "youtu.be", FALSE, ""),
         Url(FALSE, "youtu.be", FALSE, "dQw4")}

\* extract_video_id, lines 22-32: the id, or "" where "not video_id" holds
\* (None, or an empty id)
extract_video_id(url) ==
    IF url.host = "youtube.com" THEN (IF url.has_v THEN url.id ELSE "")
    ELSE IF url.host = "youtu.be" THEN url.id
    ELSE ""

Destination == "out"
Paths == {Destination}
\* a destination: whether the file exists, the encoding it was opened for,
\* and the chunks written to it, in order
NoFile == [exists |-> FALSE, format |-> "", chunks |-> <<>>]
File(format, chunks) == [exists |-> TRUE, format |-> format, chunks |-> chunks]

TimestampFormats == {"HH:MM:SS", "mm:ss"}
ExportFormats == {"TXT", "CSV", "JSON", "DOCX", "SRT"}

\* __init__ and init_ui, lines 80-156: the widgets start from the stored
\* preferences, or from the first item where a stored text is not an item
Init ==
    /\ transcript_data = None
    /\ timestamp_checkbox \in BOOLEAN
    /\ timestamp_format_combo \in TimestampFormats
    /\ transcript_display = ""
    /\ disk = [p \in Paths |-> NoFile]
    /\ message = ""
    /\ fn_name = "none" /\ fn_value = None /\ fn_fmt = "HH:MM:SS" /\ fn_result = Raise("not called")

\* fetch_transcript, lines 163-167.  The text of the URL field decides only
\* which branch a fetch takes: each fetch action is enabled when some text
\* the user may have typed takes its branch.
FetchInputError ==
    /\ {url \in Urls : url.blank} # {}
    /\ transcript_display' = ""
    /\ message' = ""      \* QMessageBox.warning "Input Error"
    /\ UNCHANGED <<transcript_data, timestamp_checkbox, timestamp_format_combo, disk, fnvars>>

\* fetch_transcript, lines 163-172
FetchUrlError ==
    /\ {url \in Urls : ~url.blank /\ extract_video_id(url) = ""} # {}
    /\ transcript_display' = ""
    /\ message' = ""      \* QMessageBox.warning "URL Error"
    /\ UNCHANGED <<transcript_data, timestamp_checkbox, timestamp_format_combo, disk, fnvars>>

\* fetch_transcript, lines 163-182 and 185-186: the service returns a transcript
FetchTranscript ==
    /\ {url \in Urls : ~url.blank /\ extract_video_id(url) # ""} # {}
    /\ \E fetched \in Transcripts :
          /\ transcript_data' = fetched
          /\ transcript_display' = update_transcript_display(fetched, timestamp_checkbox,
                                                             timestamp_format_combo, "")
    /\ message' = ""      \* QMessageBox.critical "Error" if the rendering raised
    /\ UNCHANGED <<timestamp_checkbox, timestamp_format_combo, disk, fnvars>>

\* fetch_transcript, lines 163-180 and 183-186: the service raises
FetchFails ==
    /\ {url \in Urls : ~url.blank /\ extract_video_id(url) # ""} # {}
    /\ transcript_display' = ""
    /\ message' = ""      \* "Transcript Unavailable" or "Error"
    /\ UNCHANGED <<transcript_data, timestamp_checkbox, timestamp_format_combo, disk, fnvars>>

\* stateChanged of the checkbox, line 113
ToggleTimestamps ==
    /\ timestamp_checkbox' = ~timestamp_checkbox
    /\ transcript_display' = update_transcript_display(transcript_data, timestamp_checkbox',
                                  timestamp_format_combo, transcript_display)
    /\ message' = ""
    /\ UNCHANGED <<transcript_data, timestamp_format_combo, disk, fnvars>>

\* a changed window: currentIndexChanged is not connected to the re-rendering
ChangeTimestampFormatNoRender ==
    /\ \E f \in TimestampFormats \ {timestamp_format_combo} : timestamp_format_combo' = f
    /\ message' = ""
    /\ UNCHANGED <<transcript_data, timestamp_checkbox, transcript_display, disk, fnvars>>

\* currentIndexChanged of the timestamp format combo, line 131
ChangeTimestampFormat ==
    /\ \E f \in TimestampFormats \ {timestamp_format_combo} :
          /\ timestamp_format_combo' = f
          /\ transcript_display' = update_transcript_display(transcript_data, timestamp_checkbox,
                                        f, transcript_display)
    /\ message' = ""
    /\ UNCHANGED <<transcript_data, timestamp_checkbox, disk, fnvars>>

\* export_transcript, lines 205-207
ExportNoTranscript ==
    /\ Falsy(transcript_data)
    /\ message' = "No Transcript"
    /\ UNCHANGED <<transcript_data, timestamp_checkbox, timestamp_format_combo,
                   transcript_display, disk, fnvars>>

\* export_transcript, lines 205-225: the save dialog is cancelled
ExportCancelled ==
    /\ ~Falsy(transcript_data)
    /\ message' = ""
    /\ UNCHANGED <<transcript_data, timestamp_checkbox, timestamp_format_combo,
                   transcript_display, disk, fnvars>>

\* where the destination may fail during an export of n writes: at open(),
\* at the first write, at the last write, or not at all
IoFailures(n) == {0, 1, n, n + 1}

\* what export_transcript leaves at the destination, lines 230-273, w being
\* ExportWrites(...).  io_fails = 0: open() raises; 1..n: the io_fails-th write
\* raises; n + 1: no failure.  open(path, "w") truncates before the first write.
ExportedFile(old, export_format, w, io_fails) ==
    IF ~w.opens \/ io_fails = 0 THEN old
    ELSE File(export_format, Written(w.writes, 1, io_fails))

\* the message box of line 274 or 276
ExportMessage(w, io_fails) ==
    IF w.opens /\ io_fails = 0 THEN "Export Error"
    ELSE IF ExportException(w.writes, io_fails) # "" THEN "Export Error"
    ELSE "Export Successful"

\* export_transcript, lines 205-278, with a destination chosen
ExportTranscript ==
    /\ ~Falsy(transcript_data)
    /\ \E path \in Paths, item \in ExportFormats :
        \E w \in {ExportWrites(Lower(item), transcript_data, timestamp_checkbox,
                                timestamp_format_combo)} :
          \E io_fails \in IoFailures(Len(w.writes)) :
              /\ disk' = [disk EXCEPT ![path] =
                             ExportedFile(disk[path], Lower(item), w, io_fails)]
              /\ message' = ExportMessage(w, io_fails)
    /\ UNCHANGED <<transcript_data, timestamp_checkbox, timestamp_format_combo,
                   transcript_display, fnvars>>

Next ==
    \/ FetchInputError \/ FetchUrlError \/ FetchTranscript \/ FetchFails
    \/ ToggleTimestamps \/ ChangeTimestampFormat
    \/ ExportNoTranscript \/ ExportCancelled \/ ExportTranscript

Spec == Init /\ [][Next]_vars

-----------------------------------------------------------------------------
(* Properties of the window: exports and the display *)

Entry(k) == transcript_data.items[k][2]
Segments_N == Len(transcript_data.items)
Exported == disk[Destination]

\* C1: an export that fails leaves the destination as it was before the
\* attempt: never truncated, never holding the output of a prefix only.
C1_FailedExportLeavesDestination ==
    [][message' = "Export Error" => disk' = disk]_vars

\* C2: exporting a stored transcript of zero segments is not answered with a
\* warning: "No Transcript" is shown only when no transcript is stored.
C2_EmptyTranscriptIsExported ==
    message = "No Transcript" => transcript_data = None

\* the chunks each format writes before and after the segments
Preamble(format) ==
    CASE format = "csv" -> <<CsvHeader>>
      [] format = "json" -> <<Text1("[")>>
      [] format = "docx" -> <<DocxHeading>>
      [] OTHER -> <<>>
Postamble(format) == IF format = "json" THEN <<Text1("]")>> ELSE <<>>
UnitSize(format) == IF format = "srt" THEN 3 ELSE 1

\* the chunks of the unit made from the k-th segment
UnitOf(format, k) ==
    CASE format = "txt" ->
           <<TextLine(Entry(k), timestamp_checkbox, timestamp_format_combo).val>>
      [] format = "csv" ->
           <<CsvRow(Entry(k), timestamp_checkbox, timestamp_format_combo).val>>
      [] format = "json" -> <<Entry(k)>>
      [] format = "docx" ->
           <<DocxParagraph(Entry(k), timestamp_checkbox, timestamp_format_combo).val>>
      [] format = "srt" ->
           <<SrtBlock(Entry(k), k)[1].val, SrtBlock(Entry(k), k)[2].val, SrtBlock(Entry(k), k)[3].val>>

\* the lines of the first n segments, first to last
RECURSIVE LinesUpTo(_)
LinesUpTo(n) ==
    IF n = 0 THEN ""
    ELSE LinesUpTo(n - 1)
         \o StringOf(TextLine(Entry(n), timestamp_checkbox, timestamp_format_combo).val)

\* C8: an export of N segments holds exactly N segment units after the
\* format's preamble, the k-th made from the k-th segment, in every format;
\* a rendered display holds the N lines in segment order.
C8_OrderPreserved ==
    /\ message = "Export Successful" =>
         LET format == Exported.format
             pre == Len(Preamble(format))
             size == UnitSize(format)
         IN  /\ Exported.exists
             /\ format \in {"txt", "csv", "json", "docx", "srt"}
             /\ Len(Exported.chunks) = pre + size * Segments_N + Len(Postamble(format))
             /\ SubSeq(Exported.chunks, 1, pre) = Preamble(format)
             /\ \A k \in 1..Segments_N :
                  SubSeq(Exported.chunks, pre + size * (k - 1) + 1, pre + size * k)
                    = UnitOf(format, k)
    /\ transcript_display # "" => transcript_display = LinesUpTo(Segments_N)

C8_Witness ==
    /\ message = "Export Successful"
    /\ Exported.format = "csv"
    /\ Segments_N = 2
    /\ Entry(1) # Entry(2)
    /\ StringOf(Text(Entry(1))) = "World"
    /\ timestamp_checkbox

\* the subtitle timestamp of a time field, and of the end of a segment
SrtStart(entry) ==
    StringOf(format_srt_timestamp(safe_time(Lookup(entry, "start")).val).val)
SrtEnd(entry) ==
    StringOf(format_srt_timestamp(
        Num(safe_time(Lookup(entry, "start")).val.v
            + safe_time(Lookup(entry, "duration")).val.v)).val)

\* C9: a subtitle export is, for i = 1..N in order, the index line i, the
\* line "S --> E" with E the timestamp of start + duration, and the text
\* followed by a blank line, whatever the display policy.
C9_SubtitleBlocks ==
    (message = "Export Successful" /\ Exported.format = "srt") =>
        /\ Len(Exported.chunks) = 3 * Segments_N
        /\ \A i \in 1..Segments_N :
             /\ Exported.chunks[3 * i - 2] = Text1(Join(DigitsOf(i)) \o "\n")
             /\ Exported.chunks[3 * i - 1]
                  = Text1(SrtStart(Entry(i)) \o " --> " \o SrtEnd(Entry(i)) \o "\n")
             /\ Exported.chunks[3 * i] = Text1(StringOf(Text(Entry(i))) \o "\n\n")

C9_Witness ==
    /\ message = "Export Successful"
    /\ Exported.format = "srt"
    /\ Segments_N = 2
    /\ ~timestamp_checkbox
    /\ Exported.chunks[2] = Text1("00:00:05,000 --> 00:00:07,500\n")
    /\ Exported.chunks[5] = Text1("01:01:01,250 --> 01:01:02,250\n")

\* C10: the display is empty, or it is the text rendering of the stored
\* transcript under the policy now selected.
C10_DisplayIsCurrent ==
    \/ transcript_display = ""
    \/ /\ ~Falsy(transcript_data)
       /\ transcript_display
            = StringOf(DisplayText(transcript_data, 1, timestamp_checkbox,
                                   timestamp_format_combo).val)

C10_Witness ==
    /\ transcript_display = "[00:05] Hello\n[61:01] World\n"
    /\ Exported.exists

-----------------------------------------------------------------------------
(* The utility functions applied to bounded inputs *)

Leaves == {Num(5 * Unit), Str(<<"1", "2", ".", "5">>), Str(<<"x">>),
           Str(<<"1", "e", "9", "9", "9">>), None, EmptyList, BigInt, Inf}

\* the other entry of a two-entry mapping
Siblings == {Str(<<"x">>), Num(7 * Unit)}

KeyPairs == {<<"a", "b">>, <<"value", "a">>, <<"a", "value">>}

RECURSIVE Values(_)
Values(depth) ==
    IF depth = 0 THEN Leaves
    ELSE LET inner == Values(depth - 1)
         IN  Leaves
             \cup {Dict(<<<<k, x>>>>) : k \in {"value", "a"}, x \in inner}
             \cup {Dict(<<<<ks[1], x>>, <<ks[2], y>>>>) : ks \in KeyPairs, x \in inner, y \in Siblings}
             \cup {Dict(<<<<ks[1], y>>, <<ks[2], x>>>>) : ks \in KeyPairs, x \in inner, y \in Siblings}

\* non-negative times: whole seconds around the minute, hour and day
\* boundaries, fractions around the millisecond and second boundaries.  Two
\* days is what 32-bit integers hold in units of 1/10000 second.
Days == {0, 1}

TimeValues ==
    {Num((((d * 24 + h) * 60 + m) * 60 + s) * Unit + f) :
        d \in Days, h \in {0, 1, 23}, m \in {0, 1, 59}, s \in {0, 1, 59},
        f \in {0, 4, 5, 2500, 5000, 9994, 9996}}

Styles == {"HH:MM:SS", "mm:ss", "ss"}

NoResult == Raise("not called")

InitFn ==
    /\ transcript_data = None /\ timestamp_checkbox = TRUE
    /\ timestamp_format_combo = "HH:MM:SS"
    /\ transcript_display = "" /\ disk = [p \in Paths |-> NoFile]
    /\ message = ""
    /\ fn_name = "none"
    /\ fn_value \in Values(MaxDepth) \cup TimeValues
    /\ fn_fmt = "HH:MM:SS"
    /\ fn_result = NoResult

CallSafeTime ==
    /\ fn_name = "none"
    /\ fn_name' = "safe_time"
    /\ fn_result' = safe_time(fn_value)
    /\ UNCHANGED <<fn_value, fn_fmt, guivars>>

CallFormatTimestamp ==
    /\ fn_name = "none"
    /\ \E fmt \in Styles :
          /\ fn_fmt' = fmt
          /\ fn_result' = format_timestamp(fn_value, fmt)
    /\ fn_name' = "format_timestamp"
    /\ UNCHANGED <<fn_value, guivars>>

CallFormatSrtTimestamp ==
    /\ fn_name = "none"
    /\ fn_name' = "format_srt_timestamp"
    /\ fn_result' = format_srt_timestamp(fn_value)
    /\ UNCHANGED <<fn_value, fn_fmt, guivars>>

NextFn == CallSafeTime \/ CallFormatTimestamp \/ CallFormatSrtTimestamp

SpecFn == InitFn /\ [][NextFn]_vars

-----------------------------------------------------------------------------
(* Properties of the utility functions *)

\* whether a value holds a valid number anywhere, and the number the first
\* such place holds
RECURSIVE HoldsNumber(_)
HoldsNumber(x) ==
    IF x.tag = "dict"
    THEN \/ HasKey(x, "value") /\ PyFloat(Lookup(x, "value")).exc = ""
         \/ \E i \in 1..Len(x.items) : HoldsNumber(x.items[i][2])
    ELSE PyFloat(x).exc = ""

RECURSIVE FirstNumber(_)
FirstNumber(x) ==
    IF x.tag # "dict" THEN (IF PyFloat(x).exc = "" THEN PyFloat(x).val ELSE Num(0))
    ELSE IF HasKey(x, "value") /\ PyFloat(Lookup(x, "value")).exc = ""
         THEN PyFloat(Lookup(x, "value")).val
    ELSE IF \E i \in 1..Len(x.items) : HoldsNumber(x.items[i][2])
         THEN FirstNumber(x.items[CHOOSE i \in 1..Len(x.items) :
                                     /\ HoldsNumber(x.items[i][2])
                                     /\ \A j \in 1..(i - 1) : ~HoldsNumber(x.items[j][2])][2])
    ELSE Num(0)

\* a value all of whose numbers are finite floats
RECURSIVE Finite(_)
Finite(x) ==
    IF x.tag = "dict" THEN \A i \in 1..Len(x.items) : Finite(x.items[i][2])
    ELSE PyFloat(x).exc \in {"ValueError", "TypeError"} \/ PyFloat(x) = Ret(Num(PyFloat(x).val.v))

\* C4: for a mapping without a convertible "value" key, safe_time returns the
\* number of the first value that holds one, skipping the values that hold none.
C4_FirstValueHoldingNumber ==
    (/\ fn_name = "safe_time"
     /\ fn_value.tag = "dict"
     /\ Finite(fn_value)
     /\ ~(HasKey(fn_value, "value") /\ PyFloat(Lookup(fn_value, "value")).exc = ""))
    => fn_result = Ret(FirstNumber(fn_value))

\* C5: safe_time never raises and returns a finite float, 0.0 when the input
\* holds no number anywhere.
C5_SafeTimeTotal ==
    fn_name = "safe_time" =>
        /\ fn_result.exc = ""
        /\ fn_result.val.tag = "num"
        /\ ~HoldsNumber(fn_value) => fn_result.val = Num(0)

\* the digits of a field of a timestamp, and the number they write
Field(cs, from, to) == DecimalValue(SubSeq(cs, from, to))
IsField(cs, from, to) == from <= to /\ AllDigits(SubSeq(cs, from, to))

\* HH:MM:SS,mmm with two or more hour digits, for the time t in model units
IsSrtTimestamp(cs, t) ==
    LET n == Len(cs)
    IN  /\ n >= 12
        /\ cs[n - 3] = "," /\ cs[n - 6] = ":" /\ cs[n - 9] = ":"
        /\ IsField(cs, n - 2, n) /\ IsField(cs, n - 5, n - 4)
        /\ IsField(cs, n - 8, n - 7) /\ IsField(cs, 1, n - 10)
        /\ n > 12 => cs[1] # "0"
        /\ Field(cs, n - 8, n - 7) < 60 /\ Field(cs, n - 5, n - 4) < 60
        /\ LET ms == ((Field(cs, 1, n - 10) * 60 + Field(cs, n - 8, n - 7)) * 60
                      + Field(cs, n - 5, n - 4)) * 1000 + Field(cs, n - 2, n)
           IN  10 * ms - t <= 5 /\ t - 10 * ms <= 5

\* C6: format_srt_timestamp of a non-negative time is HH:MM:SS,mmm with three
\* millisecond digits, minutes and seconds below 60, hours not wrapped, and
\* denotes the time rounded to the nearest millisecond.
C6_SrtTimestampShape ==
    (fn_name = "format_srt_timestamp" /\ fn_value \in TimeValues) =>
        /\ fn_result.exc = ""
        /\ IsSrtTimestamp(fn_result.val.s, fn_value.v)

\* MM:SS with two or more minute digits, minutes uncapped
IsCompact(cs, secs) ==
    LET n == Len(cs)
    IN  /\ n >= 5
        /\ cs[n - 2] = ":"
        /\ IsField(cs, 1, n - 3) /\ IsField(cs, n - 1, n)
        /\ n > 5 => cs[1] # "0"
        /\ Field(cs, 1, n - 3) = secs \div 60
        /\ Field(cs, n - 1, n) = secs % 60

\* HH:MM:SS of the time of day
IsClock(cs, secs) ==
    /\ Len(cs) = 8
    /\ cs[3] = ":" /\ cs[6] = ":"
    /\ IsField(cs, 1, 2) /\ IsField(cs, 4, 5) /\ IsField(cs, 7, 8)
    /\ Field(cs, 1, 2) = (secs % 86400) \div 3600
    /\ Field(cs, 4, 5) = (secs % 3600) \div 60
    /\ Field(cs, 7, 8) = secs % 60

\* C7: format_timestamp of a non-negative time with integer part s is, for
\* style "mm:ss", s div 60 (uncapped) and s mod 60, and for "HH:MM:SS" and
\* any other style the clock fields of s wrapped at 24 hours.
C7_FormatTimestamp ==
    (fn_name = "format_timestamp" /\ fn_value \in TimeValues) =>
        /\ fn_result.exc = ""
        /\ IF fn_fmt = "mm:ss"
           THEN IsCompact(fn_result.val.s, fn_value.v \div Unit)
           ELSE IsClock(fn_result.val.s, fn_value.v \div Unit)

C7_Witness ==
    /\ fn_name = "format_timestamp"
    /\ fn_fmt = "ss"
    /\ fn_value = Num(((24 + 1) * 3600 + 59) * Unit + 9996)
    /\ fn_result = Ret(Str(<<"0", "1", ":", "0", "0", ":", "5", "9">>))

=============================================================================
